---- MODULE Spec2Model ----
(***************************************************************************)
(* Model of the LeaveManager tool server (src/main.py): the three leave    *)
(* tools over the employee_leaves / leave_history tables, and the          *)
(* pg_dump / pg_restore tools over the command runner and the              *)
(* disconnect/drop helpers.                                                *)
(*                                                                         *)
(* Every tool call is a process that walks through the statements of its   *)
(* function; one action is one call to a collaborator (a connect, one SQL  *)
(* statement, a commit, one subprocess) together with the local code that  *)
(* follows it up to the next such call.  A collaborator either succeeds or *)
(* raises.  The database is PostgreSQL at its default isolation level      *)
(* (read committed): a session sees committed rows, its own UPDATE and     *)
(* INSERTs stay private until commit, an UPDATE takes the row lock and     *)
(* waits for the lock of another session, and a session that ends without  *)
(* commit has no effect.                                                   *)
(*                                                                         *)
(* A calendar date is represented by its day number, so the order of the   *)
(* DATE column is the order of the integers.                               *)
(***************************************************************************)
EXTENDS Integers, Sequences, FiniteSets, TLC

NumProcs == 2
MaxBalance == 2
MaxLen == 2
MaxDate == 2
MaxSessions == 1
MaxRows == 2
MaxConcLen == 1

Procs == 1..NumProcs
Known == {"E1"}
EmpIds == Known \cup {"E0"}
Dates == 1..MaxDate
DateLists == UNION {[1..n -> Dates] : n \in 0..MaxLen}
\* for interleaved calls only the number of dates matters: one date, repeated
ConcLists == {[i \in 1..n |-> 1] : n \in 0..MaxConcLen}

LeaveTools == {"get_leave_balance", "apply_leave", "get_leave_history"}
Tools == LeaveTools \cup {"pg_dump_tool", "pg_restore_tool"}

VARIABLES
    balance,            \* table employee_leaves: emp_id -> balance (committed)
    history,            \* table leave_history: committed rows, in insertion order
    target_exists,      \* the database named target_db exists
    target_sessions,    \* number of other sessions connected to target_db
    pc,                 \* position of each call
    tool,               \* the tool a call runs
    employee_id,        \* argument employee_id
    leave_dates,        \* argument leave_dates
    auto_drop,          \* argument auto_drop
    create,             \* argument create
    available_balance,  \* local available_balance of apply_leave
    inserted,           \* number of iterations of the INSERT loop completed
    open,               \* the session the call opened is still open
    holds,              \* the call's session holds the row lock of employee_id
    plan,               \* helper calls pg_restore_tool has yet to make
    log,                \* collaborator calls of pg_restore_tool that completed
    result,             \* what the call returned (<<>> while running)
    fault,              \* a collaborator raised during the call
    pre,                \* committed state when the running call began
    opening             \* the balances the system started from

tables == <<balance, history>>
target == <<target_exists, target_sessions>>
args == <<tool, employee_id, leave_dates, auto_drop, create>>
locals == <<available_balance, inserted, plan, log>>
vars == <<balance, history, target_exists, target_sessions, pc, tool,
          employee_id, leave_dates, auto_drop, create, available_balance,
          inserted, open, holds, plan, log, result, fault, pre, opening>>

(***************************************************************************)
(* Pure parts of the code.                                                 *)
(***************************************************************************)

\* len(leave_dates) with duplicates collapsed
RequestedDaysDistinct(dates) == Cardinality({dates[i] : i \in 1..Len(dates)})

\* requested_days = len(leave_dates)
RequestedDays(dates) == Len(dates)

\* the comparison turned around
InsufficientReversed(available, requested) == requested < available

\* if available_balance < requested_days
Insufficient(available, requested) == available < requested

\* new_balance = available_balance - requested_days
NewBalance(available, requested) == available - requested

\* rows of leave_history WHERE emp_id = e, as their dates in table order
DatesOf(table, e) ==
    LET rows == SelectSeq(table, LAMBDA r : r.emp_id = e)
    IN  [i \in 1..Len(rows) |-> rows[i].leave_date]

\* the rows a call inserts, one per element of leave_dates
NewRows(e, dates) == [i \in 1..Len(dates) |-> [emp_id |-> e, leave_date |-> dates[i]]]

RECURSIVE InsertByDate(_, _)
InsertByDate(s, d) ==
    IF s = <<>> THEN <<d>>
    ELSE IF d < Head(s) THEN <<d>> \o s
    ELSE <<Head(s)>> \o InsertByDate(Tail(s), d)

\* the query without its ORDER BY clause
Unordered(s) == s

\* ORDER BY leave_date
RECURSIVE OrderByLeaveDate(_)
OrderByLeaveDate(s) ==
    IF s = <<>> THEN <<>>
    ELSE InsertByDate(OrderByLeaveDate(SubSeq(s, 1, Len(s) - 1)), s[Len(s)])

\* the empty-history branch without the existence check
HistoryEmptyNoCheck(e, exists) == <<"no_leaves", e>>

\* get_leave_history, no rows: the answer after the existence check
HistoryEmpty(e, exists) == IF exists THEN <<"no_leaves", e>> ELSE <<"not_found">>

\* the helper calls made whenever auto_drop is set
PreRestoreAutoDropOnly(ad, cr) ==
    IF ad THEN <<"disconnect_all", "drop_database">> ELSE <<>>

\* the helper calls made with the drop first
PreRestoreDropFirst(ad, cr) ==
    IF ad /\ cr THEN <<"drop_database", "disconnect_all">> ELSE <<>>

\* pg_restore_tool: the helper calls before the restore command, in order
PreRestore(ad, cr) ==
    IF ad /\ cr THEN <<"disconnect_all", "drop_database">> ELSE <<>>

CmdOutcomes == {"exit_0", "exit_nonzero", "timeout", "not_found"}

\* _run_cmd: the string returned for each outcome of subprocess.run
run_cmd(outcome) ==
    CASE outcome = "exit_0"       -> <<"report", "exit_code=0">>
      [] outcome = "exit_nonzero" -> <<"report", "exit_code=1">>
      [] outcome = "timeout"      -> <<"timed_out">>
      [] outcome = "not_found"    -> <<"command_not_found">>

\* pg_dump_tool: subprocess.run(cmd, check=True) without a timeout
DumpOutcomes == CmdOutcomes \ {"timeout"}

\* pg_dump_tool: the string returned, or the exception that escapes
DumpResult(outcome) ==
    CASE outcome = "exit_0"       -> <<"backup_completed">>
      [] outcome = "exit_nonzero" -> <<"pg_dump_failed">>
      [] outcome = "not_found"    -> <<"RAISED", "FileNotFoundError">>

(***************************************************************************)
(* Initial state: the tables as created out of band, no call running.      *)
(***************************************************************************)
Init ==
    /\ balance \in [Known -> 0..MaxBalance]
    /\ history = <<>>
    /\ target_exists \in BOOLEAN
    /\ target_sessions = 0
    /\ pc = [p \in Procs |-> "idle"]
    /\ tool = [p \in Procs |-> "none"]
    /\ employee_id = [p \in Procs |-> "E0"]
    /\ leave_dates = [p \in Procs |-> <<>>]
    /\ auto_drop = [p \in Procs |-> FALSE]
    /\ create = [p \in Procs |-> FALSE]
    /\ available_balance = [p \in Procs |-> 0]
    /\ inserted = [p \in Procs |-> 0]
    /\ open = [p \in Procs |-> FALSE]
    /\ holds = [p \in Procs |-> FALSE]
    /\ plan = [p \in Procs |-> <<>>]
    /\ log = [p \in Procs |-> <<>>]
    /\ result = [p \in Procs |-> <<>>]
    /\ fault = [p \in Procs |-> FALSE]
    /\ pre = [balance |-> balance, history |-> history, target_exists |-> target_exists]
    /\ opening = balance

(***************************************************************************)
(* A call begins: the framework invokes a registered tool with arguments.  *)
(***************************************************************************)
FirstPc(t, ad, cr) ==
    CASE t \in LeaveTools      -> "connect"
      [] t = "pg_dump_tool"    -> "dump"
      [] t = "pg_restore_tool" -> IF PreRestore(ad, cr) = <<>> THEN "run" ELSE "prestep"

\* rows the running calls may still insert
RECURSIVE Requested(_)
Requested(ps) ==
    IF ps = {} THEN 0
    ELSE LET q == CHOOSE x \in ps : TRUE
         IN  Len(leave_dates[q]) + Requested(ps \ {q})

Call(p, t, e, d, ad, cr) ==
    /\ pc[p] = "idle"
    /\ Len(history) + Requested(Procs) + Len(d) <= MaxRows
    /\ pc' = [pc EXCEPT ![p] = FirstPc(t, ad, cr)]
    /\ tool' = [tool EXCEPT ![p] = t]
    /\ employee_id' = [employee_id EXCEPT ![p] = e]
    /\ leave_dates' = [leave_dates EXCEPT ![p] = d]
    /\ auto_drop' = [auto_drop EXCEPT ![p] = ad]
    /\ create' = [create EXCEPT ![p] = cr]
    /\ plan' = [plan EXCEPT ![p] = IF t = "pg_restore_tool" THEN PreRestore(ad, cr) ELSE <<>>]
    /\ UNCHANGED <<tables, target, available_balance, inserted, open, holds,
                   log, result, fault, opening>>

\* the server of this program: synchronous, one tool call at a time
Start(p) ==
    /\ \A q \in Procs : pc[q] = "idle"
    /\ pre' = [balance |-> balance, history |-> history, target_exists |-> target_exists]
    /\ \/ \E e \in EmpIds : Call(p, "get_leave_balance", e, <<>>, FALSE, FALSE)
       \/ \E e \in EmpIds, d \in DateLists : Call(p, "apply_leave", e, d, FALSE, FALSE)
       \/ \E e \in EmpIds : Call(p, "get_leave_history", e, <<>>, FALSE, FALSE)
       \/ Call(p, "pg_dump_tool", "E0", <<>>, FALSE, FALSE)
       \/ \E ad \in BOOLEAN, cr \in BOOLEAN : Call(p, "pg_restore_tool", "E0", <<>>, ad, cr)

\* several servers on one database: leave calls begin at any time
StartLeave(p) ==
    /\ UNCHANGED pre
    /\ \/ \E e \in Known : Call(p, "get_leave_balance", e, <<>>, FALSE, FALSE)
       \/ \E e \in Known, d \in ConcLists : Call(p, "apply_leave", e, d, FALSE, FALSE)
       \/ \E e \in Known : Call(p, "get_leave_history", e, <<>>, FALSE, FALSE)

(***************************************************************************)
(* How a step ends the call.                                               *)
(***************************************************************************)

\* return <string>
Return(p, r) ==
    /\ pc' = [pc EXCEPT ![p] = "done"]
    /\ result' = [result EXCEPT ![p] = r]
    /\ UNCHANGED <<open, holds, fault>>

\* return <string> after cur.close(); conn.close()
ReturnClosed(p, r) ==
    /\ pc' = [pc EXCEPT ![p] = "done"]
    /\ result' = [result EXCEPT ![p] = r]
    /\ open' = [open EXCEPT ![p] = FALSE]
    /\ holds' = [holds EXCEPT ![p] = FALSE]
    /\ UNCHANGED fault

\* a collaborator raises; the except clause returns r; nothing is closed
Caught(p, r) ==
    /\ pc' = [pc EXCEPT ![p] = "done"]
    /\ result' = [result EXCEPT ![p] = r]
    /\ fault' = [fault EXCEPT ![p] = TRUE]
    /\ UNCHANGED <<open, holds>>

\* the step is followed by the next statement of the function
Goto(p, l) ==
    /\ pc' = [pc EXCEPT ![p] = l]
    /\ UNCHANGED <<result, fault>>

(***************************************************************************)
(* The leave tools.                                                        *)
(***************************************************************************)

\* conn = get_connection(); cur = conn.cursor()
get_connection(p) ==
    /\ pc[p] \in {"connect", "connect2"}
    /\ \/ /\ Caught(p, <<"db_error">>)
          /\ UNCHANGED open
       \/ /\ open' = [open EXCEPT ![p] = TRUE]
          /\ Goto(p, IF pc[p] = "connect" THEN "select" ELSE "exists")
          /\ UNCHANGED holds
    /\ UNCHANGED <<tables, target, args, locals, pre, opening>>

\* get_leave_balance: SELECT balance ... ; fetchone; close; return
get_leave_balance(p) ==
    /\ pc[p] = "select" /\ tool[p] = "get_leave_balance"
    /\ \/ Caught(p, <<"db_error">>)
       \/ ReturnClosed(p, IF employee_id[p] \in DOMAIN balance
                          THEN <<"remaining", employee_id[p], balance[employee_id[p]]>>
                          ELSE <<"not_found">>)
    /\ UNCHANGED <<tables, target, args, locals, pre, opening>>

\* apply_leave: SELECT balance, the not-found and insufficient-balance returns
apply_leave_select(p) ==
    /\ pc[p] = "select" /\ tool[p] = "apply_leave"
    /\ \/ /\ Caught(p, <<"db_error">>)
          /\ UNCHANGED available_balance
       \/ /\ employee_id[p] \notin DOMAIN balance
          /\ ReturnClosed(p, <<"not_found">>)
          /\ UNCHANGED available_balance
       \/ /\ employee_id[p] \in DOMAIN balance
          /\ LET available == balance[employee_id[p]]
                 requested == RequestedDays(leave_dates[p])
             IN  IF Insufficient(available, requested)
                 THEN /\ ReturnClosed(p, <<"insufficient", requested, available>>)
                      /\ UNCHANGED available_balance
                 ELSE /\ available_balance' = [available_balance EXCEPT ![p] = available]
                      /\ Goto(p, "update")
                      /\ UNCHANGED <<open, holds>>
    /\ UNCHANGED <<tables, target, args, inserted, plan, log, pre, opening>>

\* the UPDATE run on a connection in autocommit mode
apply_leave_update_autocommit(p) ==
    /\ pc[p] = "update"
    /\ \A q \in Procs \ {p} : ~(holds[q] /\ employee_id[q] = employee_id[p])
    /\ \/ /\ Caught(p, <<"db_error">>)
          /\ UNCHANGED balance
       \/ /\ balance' = [balance EXCEPT ![employee_id[p]] =
                 NewBalance(available_balance[p], RequestedDays(leave_dates[p]))]
          /\ Goto(p, IF leave_dates[p] = <<>> THEN "commit" ELSE "insert")
          /\ UNCHANGED <<open, holds>>
    /\ UNCHANGED <<history, target, args, locals, pre, opening>>

\* apply_leave: UPDATE employee_leaves SET balance = new_balance; the
\* statement waits while another session holds the lock of the row
apply_leave_update(p) ==
    /\ pc[p] = "update"
    /\ \A q \in Procs \ {p} : ~(holds[q] /\ employee_id[q] = employee_id[p])
    /\ \/ /\ Caught(p, <<"db_error">>)
          /\ UNCHANGED holds
       \/ /\ holds' = [holds EXCEPT ![p] = TRUE]
          /\ Goto(p, IF leave_dates[p] = <<>> THEN "commit" ELSE "insert")
          /\ UNCHANGED open
    /\ UNCHANGED <<tables, target, args, locals, pre, opening>>

\* apply_leave: one iteration of the INSERT loop
apply_leave_insert(p) ==
    /\ pc[p] = "insert"
    /\ \/ /\ Caught(p, <<"db_error">>)
          /\ UNCHANGED inserted
       \/ /\ inserted' = [inserted EXCEPT ![p] = @ + 1]
          /\ Goto(p, IF inserted[p] + 1 = Len(leave_dates[p]) THEN "commit" ELSE "insert")
          /\ UNCHANGED <<open, holds>>
    /\ UNCHANGED <<tables, target, args, available_balance, plan, log, pre, opening>>

\* apply_leave: conn.commit(); close; return the success message
apply_leave_commit(p) ==
    /\ pc[p] = "commit"
    /\ LET new_balance == NewBalance(available_balance[p], RequestedDays(leave_dates[p]))
       IN  \/ /\ Caught(p, <<"db_error">>)
              /\ UNCHANGED tables
           \/ /\ balance' = [balance EXCEPT ![employee_id[p]] = new_balance]
              /\ history' = history \o NewRows(employee_id[p], SubSeq(leave_dates[p], 1, inserted[p]))
              /\ ReturnClosed(p, <<"applied", RequestedDays(leave_dates[p]), new_balance>>)
    /\ UNCHANGED <<target, args, locals, pre, opening>>

\* get_leave_history: SELECT leave_date ... ORDER BY leave_date; close
get_leave_history_select(p) ==
    /\ pc[p] = "select" /\ tool[p] = "get_leave_history"
    /\ LET rows == OrderByLeaveDate(DatesOf(history, employee_id[p]))
       IN  \/ Caught(p, <<"db_error">>)
           \/ /\ rows # <<>>
              /\ ReturnClosed(p, <<"history", employee_id[p], rows>>)
           \/ /\ rows = <<>>
              /\ open' = [open EXCEPT ![p] = FALSE]
              /\ Goto(p, "connect2")
              /\ UNCHANGED holds
    /\ UNCHANGED <<tables, target, args, locals, pre, opening>>

\* get_leave_history: SELECT 1 FROM employee_leaves on the second connection
get_leave_history_exists(p) ==
    /\ pc[p] = "exists"
    /\ \/ Caught(p, <<"db_error">>)
       \/ ReturnClosed(p, HistoryEmpty(employee_id[p], employee_id[p] \in DOMAIN balance))
    /\ UNCHANGED <<tables, target, args, locals, pre, opening>>

(***************************************************************************)
(* The backup and restore tools.                                           *)
(***************************************************************************)

\* pg_dump_tool: one subprocess.run(cmd, check=True)
pg_dump_tool(p) ==
    /\ pc[p] = "dump"
    /\ \E outcome \in DumpOutcomes : Return(p, DumpResult(outcome))
    /\ UNCHANGED <<tables, target, args, locals, pre, opening>>

\* after a helper: the next helper, or the restore command
AfterHelper(p) ==
    /\ plan' = [plan EXCEPT ![p] = Tail(@)]
    /\ log' = [log EXCEPT ![p] = Append(@, Head(plan[p]))]
    /\ Goto(p, IF Tail(plan[p]) = <<>> THEN "run" ELSE "prestep")
    /\ UNCHANGED <<open, holds>>

\* disconnect_all: pg_terminate_backend on every other session of the target
disconnect_all(p) ==
    /\ pc[p] = "prestep" /\ Head(plan[p]) = "disconnect_all"
    /\ \/ /\ Caught(p, <<"restore_error">>)
          /\ UNCHANGED <<target_sessions, plan, log>>
       \/ /\ target_sessions' = 0
          /\ AfterHelper(p)
    /\ UNCHANGED <<tables, target_exists, args, available_balance, inserted, pre, opening>>

\* drop_database: DROP DATABASE IF EXISTS, refused while sessions are connected
drop_database(p) ==
    /\ pc[p] = "prestep" /\ Head(plan[p]) = "drop_database"
    /\ \/ /\ Caught(p, <<"restore_error">>)
          /\ UNCHANGED <<target_exists, plan, log>>
       \/ /\ target_sessions = 0
          /\ target_exists' = FALSE
          /\ AfterHelper(p)
    /\ UNCHANGED <<tables, target_sessions, args, available_balance, inserted, pre, opening>>

\* pg_restore_tool: return _run_cmd(cmd, env=env)
pg_restore_tool(p) ==
    /\ pc[p] = "run"
    /\ log' = [log EXCEPT ![p] = Append(@, "pg_restore")]
    /\ \E outcome \in CmdOutcomes : Return(p, run_cmd(outcome))
    /\ UNCHANGED <<tables, target, args, available_balance, inserted, plan, pre, opening>>

\* another client opens a session on the target database
client_connects ==
    /\ target_exists
    /\ target_sessions < MaxSessions
    /\ target_sessions' = target_sessions + 1
    /\ UNCHANGED <<tables, target_exists, pc, args, locals, open, holds,
                   result, fault, pre, opening>>

(***************************************************************************)
(* The caller has the result; the frame of the call is gone.  A session    *)
(* the call left open is dropped with it: its transaction never commits.   *)
(***************************************************************************)
Finish(p) ==
    /\ pc[p] = "done"
    /\ pc' = [pc EXCEPT ![p] = "idle"]
    /\ tool' = [tool EXCEPT ![p] = "none"]
    /\ employee_id' = [employee_id EXCEPT ![p] = "E0"]
    /\ leave_dates' = [leave_dates EXCEPT ![p] = <<>>]
    /\ auto_drop' = [auto_drop EXCEPT ![p] = FALSE]
    /\ create' = [create EXCEPT ![p] = FALSE]
    /\ available_balance' = [available_balance EXCEPT ![p] = 0]
    /\ inserted' = [inserted EXCEPT ![p] = 0]
    /\ open' = [open EXCEPT ![p] = FALSE]
    /\ holds' = [holds EXCEPT ![p] = FALSE]
    /\ plan' = [plan EXCEPT ![p] = <<>>]
    /\ log' = [log EXCEPT ![p] = <<>>]
    /\ result' = [result EXCEPT ![p] = <<>>]
    /\ fault' = [fault EXCEPT ![p] = FALSE]
    /\ UNCHANGED <<tables, target, pre, opening>>

LeaveStep(p) ==
    \/ get_connection(p)
    \/ get_leave_balance(p)
    \/ apply_leave_select(p)
    \/ apply_leave_update(p)
    \/ apply_leave_insert(p)
    \/ apply_leave_commit(p)
    \/ get_leave_history_select(p)
    \/ get_leave_history_exists(p)
    \/ Finish(p)

\* one server, one call at a time, all five tools
Next ==
    \/ \E p \in Procs :
          \/ Start(p)
          \/ LeaveStep(p)
          \/ pg_dump_tool(p)
          \/ disconnect_all(p)
          \/ drop_database(p)
          \/ pg_restore_tool(p)
    \/ client_connects

Spec == Init /\ [][Next]_vars

\* several servers on one database, their leave calls interleaved
NextConc == \E p \in Procs : StartLeave(p) \/ LeaveStep(p)

SpecConc == Init /\ [][NextConc]_vars

(***************************************************************************)
(* Properties.                                                             *)
(***************************************************************************)
Done(p, t) == pc[p] = "done" /\ tool[p] = t

Kind(p) == IF result[p] = <<>> THEN "none" ELSE result[p][1]

Has(s, x) == \E i \in 1..Len(s) : s[i] = x

IsPrefix(s, t) == Len(s) <= Len(t) /\ SubSeq(t, 1, Len(s)) = s

\* C1: an apply_leave call for an existing employee with stored balance B
\* and D dates, duplicates counted, that no database failure hits: if
\* D <= B the stored balance is B - D, exactly D rows of the employee are
\* new and the result is the success message with D and B - D; if D > B
\* balance and history are unchanged and the result is the
\* insufficient-balance message with D and B.
C1_ApplyLeaveContract ==
    \A p \in Procs :
        (Done(p, "apply_leave") /\ employee_id[p] \in Known /\ ~fault[p]) =>
            LET e == employee_id[p]
                B == pre.balance[e]
                D == Len(leave_dates[p])
            IN  IF D <= B
                THEN /\ balance = [pre.balance EXCEPT ![e] = B - D]
                     /\ Len(DatesOf(history, e)) = Len(DatesOf(pre.history, e)) + D
                     /\ IsPrefix(pre.history, history)
                     /\ result[p] = <<"applied", D, B - D>>
                ELSE /\ balance = pre.balance
                     /\ history = pre.history
                     /\ result[p] = <<"insufficient", D, B>>

\* C1 witness: a list of two equal dates was applied against a balance of 2
C1_Witness ==
    \E p \in Procs :
        /\ Done(p, "apply_leave") /\ employee_id[p] \in Known
        /\ leave_dates[p] = <<1, 1>>
        /\ pre.balance[employee_id[p]] = 2
        /\ result[p] = <<"applied", 2, 0>>

\* C2: in every reachable state, under every interleaving of the three
\* leave tools from non-negative balances, each committed balance is >= 0.
C2_BalanceNonNegative == \A e \in Known : balance[e] >= 0

\* C2 witness: a call is about to write from a balance it read before
\* another call committed a lower one
C2_Witness ==
    \E p \in Procs, q \in Procs :
        /\ p # q
        /\ Done(p, "apply_leave") /\ Kind(p) = "applied"
        /\ pc[q] = "update" /\ employee_id[q] = employee_id[p]
        /\ leave_dates[q] # <<>>
        /\ available_balance[q] > balance[employee_id[q]]

\* C3: apply_leave is all or nothing on the committed tables: while a call
\* runs and after it returns they are as they were when it began, or they
\* hold its whole effect and the call returned success; and a call in which
\* a database step failed left them as they were when it began.
C3_AllOrNothing ==
    \A p \in Procs :
        (tool[p] = "apply_leave" /\ employee_id[p] \in Known) =>
            LET e == employee_id[p]
                D == Len(leave_dates[p])
                untouched == balance = pre.balance /\ history = pre.history
                applied ==
                    /\ pc[p] = "done" /\ Kind(p) = "applied"
                    /\ balance = [pre.balance EXCEPT ![e] = @ - D]
                    /\ history = pre.history \o NewRows(e, leave_dates[p])
            IN  /\ untouched \/ applied
                /\ fault[p] => untouched

\* C3 witness: the call failed after its UPDATE and its first INSERT
C3_Witness ==
    \E p \in Procs :
        /\ Done(p, "apply_leave") /\ fault[p]
        /\ holds[p] /\ inserted[p] >= 1
        /\ Len(leave_dates[p]) = 2

\* C4: concurrent apply_leave calls lose no update: the total decrease of an
\* employee's committed balance equals the number of committed history rows.
C4_NoLostUpdate ==
    \A e \in Known : opening[e] - balance[e] = Len(DatesOf(history, e))

\* C5: with auto_drop and create, disconnect_all completes before
\* drop_database, and drop_database before the restore command is run.
C5_RestoreOrder ==
    \A p \in Procs :
        (tool[p] = "pg_restore_tool" /\ auto_drop[p] /\ create[p]) =>
            /\ IsPrefix(log[p], <<"disconnect_all", "drop_database", "pg_restore">>)
            /\ pc[p] = "run" => log[p] = <<"disconnect_all", "drop_database">>

\* C5 witness: the restore command ran after both helpers
C5_Witness ==
    \E p \in Procs :
        /\ Done(p, "pg_restore_tool") /\ auto_drop[p] /\ create[p]
        /\ log[p] = <<"disconnect_all", "drop_database", "pg_restore">>

\* C6: every tool returns a string for every outcome of its collaborators
\* and never raises to the caller.
C6_NeverRaises == \A p \in Procs : pc[p] = "done" => Kind(p) # "RAISED"

\* C7 as stated: the dates get_leave_history returns are strictly ascending.
C7_StrictlyAscending ==
    \A p \in Procs :
        (Done(p, "get_leave_history") /\ Kind(p) = "history") =>
            \A i \in 1..(Len(result[p][3]) - 1) : result[p][3][i] < result[p][3][i + 1]

\* C7 amended: the dates get_leave_history returns are in ascending order,
\* each date greater than or equal to the one before it, and they are the
\* employee's rows, each row once.
C7_Ascending ==
    \A p \in Procs :
        (Done(p, "get_leave_history") /\ Kind(p) = "history") =>
            LET rows == result[p][3]
                stored == DatesOf(history, employee_id[p])
            IN  /\ \A i \in 1..(Len(rows) - 1) : rows[i] <= rows[i + 1]
                /\ Len(rows) = Len(stored)
                /\ \A d \in Dates :
                      Cardinality({i \in 1..Len(rows) : rows[i] = d})
                          = Cardinality({i \in 1..Len(stored) : stored[i] = d})

\* C7 witness: rows inserted later date first come back earlier date first
C7_Witness ==
    \E p \in Procs :
        /\ Done(p, "get_leave_history")
        /\ DatesOf(history, employee_id[p]) = <<2, 1>>
        /\ result[p] = <<"history", employee_id[p], <<1, 2>>>>

\* C8: no call returns while a session it opened is still open.
C8_SessionsClosed == \A p \in Procs : pc[p] = "done" => ~open[p]

\* C9: for an employee without a row in employee_leaves, each leave tool
\* that no database failure hits returns the not-found result and leaves
\* balances and history unchanged; such an employee has no history rows; and
\* get_leave_history returns "No leaves taken" exactly when the employee
\* exists and has no history rows.
C9_UnknownEmployee ==
    /\ \A e \in EmpIds \ Known : DatesOf(history, e) = <<>>
    /\ \A p \in Procs :
        (pc[p] = "done" /\ tool[p] \in LeaveTools /\ ~fault[p]) =>
            /\ employee_id[p] \notin Known =>
                  /\ result[p] = <<"not_found">>
                  /\ balance = pre.balance /\ history = pre.history
            /\ tool[p] = "get_leave_history" =>
                  (Kind(p) = "no_leaves" <=>
                      /\ employee_id[p] \in Known
                      /\ DatesOf(history, employee_id[p]) = <<>>)

\* C9 witness: get_leave_history for an unknown employee went through the
\* existence check and returned not-found
C9_Witness ==
    \E p \in Procs :
        /\ Done(p, "get_leave_history") /\ ~fault[p]
        /\ employee_id[p] \notin Known
        /\ result[p] = <<"not_found">>

\* C10: unless auto_drop and create are both true, pg_restore_tool calls
\* neither disconnect_all nor drop_database and the target database exists
\* or not as it did when the call began; and when disconnect_all or
\* drop_database fails, the restore command is not run and the result is the
\* restore-error string.
C10_PreRestoreFrame ==
    \A p \in Procs :
        tool[p] = "pg_restore_tool" =>
            /\ ~(auto_drop[p] /\ create[p]) =>
                  /\ plan[p] = <<>>
                  /\ ~Has(log[p], "disconnect_all") /\ ~Has(log[p], "drop_database")
                  /\ target_exists = pre.target_exists
            /\ (pc[p] = "done" /\ fault[p]) =>
                  /\ ~Has(log[p], "pg_restore")
                  /\ result[p] = <<"restore_error">>

\* C10 witness: auto_drop without create; the restore command ran and the
\* target database and its sessions are still there
C10_Witness ==
    \E p \in Procs :
        /\ Done(p, "pg_restore_tool") /\ auto_drop[p] /\ ~create[p]
        /\ Has(log[p], "pg_restore")
        /\ target_exists /\ target_sessions > 0

====
